---- MODULE Spec2Model ----
(***************************************************************************)
(* Batch dispatch and retry engine of tts_agents: one call of              *)
(* BatchProcessor.process_batch (src/src/tts_agents/batch.py) over         *)
(* TTSAgent.generate_speech (src/src/tts_agents/core.py), on one asyncio   *)
(* event loop.  Every action is one run of a coroutine between two         *)
(* suspension points (await of the Backend, of asyncio.sleep, of the       *)
(* semaphore, of the throttler).                                           *)
(***************************************************************************)
EXTENDS Integers, Sequences, FiniteSets, TLC

(* ------------------------------ bounds --------------------------------- *)
MaxRequests == 2        \* largest well-formed batch explored
MaxConcurrent == 2      \* largest max_concurrent explored
MaxRetryAttempts == 1   \* largest retry_attempts explored
MaxApiRetries == 1      \* largest TTSConfig.max_retries explored

(* ------------------------- program constants --------------------------- *)
MaxBatchSize == 100     \* batch.py:64

Texts == {"a", "b"}
Format == "mp3"         \* AudioFormat.MP3, the default format of a TTSRequest

\* the most Backend calls one item makes without a failed save: every attempt
\* of the retry loop of _process_single_request runs the loop of
\* _call_openai_api once
TotalCalls(r, m) == (r + 1) * (m + 1)

(* ------------------------------ strings -------------------------------- *)
Digits == <<"0", "1", "2", "3", "4", "5", "6", "7", "8", "9">>

RECURSIVE NumStr(_)
\* str(n) / f"{n}" of a non-negative int
NumStr(n) == IF n < 10 THEN Digits[n + 1]
             ELSE NumStr(n \div 10) \o Digits[(n % 10) + 1]

\* Optional[T]: None is <<>>, a value v is <<v>>
None == <<>>
Some(v) == <<v>>
IsNone(o) == o = <<>>
Get(o) == o[1]

\* truthiness of an Optional[str] (None and "" are falsy)
Truthy(o) == o # None /\ Get(o) # ""

(* ----------------------------- exceptions ------------------------------ *)
\* str() of a TTSAPIError built with a message only
TTSAPIErrorStr(message) == "[API_ERROR] " \o message

\* str() of a TTSValidationError built with a message only
TTSValidationErrorStr(message) == "[VALIDATION_ERROR] " \o message

\* str() of a TTSFileError built with a message and a file path
TTSFileErrorStr(message, file_path) ==
    "[FILE_ERROR] File operation error for '" \o file_path \o "': " \o message

\* str() of the exception the Backend raises on the c-th call for an item
BackendErrorStr(c) == "backend error " \o NumStr(c)

\* str() of the OSError of a failed write or mkdir
OSErrorStr == "OSError"

(* ------------------------------ responses ------------------------------ *)
TTSResponse(success, audio_data, file_path, error) ==
    [success |-> success, audio_data |-> audio_data,
     file_path |-> file_path, error |-> error]

FailedResponse(error) == TTSResponse(FALSE, None, None, Some(error))

\* audio bytes the Backend synthesises for a text
Synthesize(text) == IF text = "a" THEN <<1, 2>> ELSE <<3>>

(* ------------------------ result aggregation --------------------------- *)
\* one element of the list asyncio.gather(..., return_exceptions=True) returns
GatherResponse(resp) == [kind |-> "response", resp |-> resp, msg |-> ""]

\* f"Request {i}: {message}", i the 0-based index of enumerate(results)
RequestError(i, message) == "Request " \o NumStr(i) \o ": " \o message

\* an iteration that counts a failed response as a success
AggStep_failedAsSuccess(acc, idx, result) ==
    IF result.kind = "response"
    THEN [acc EXCEPT !.successful = @ + 1,
                     !.errors = IF ~result.resp.success /\ Truthy(result.resp.error)
                                THEN Append(@, RequestError(idx - 1, Get(result.resp.error)))
                                ELSE @,
                     !.results = Append(@, result.resp)]
    ELSE [acc EXCEPT !.failed = @ + 1,
                     !.errors = Append(@, RequestError(idx - 1, result.msg)),
                     !.results = Append(@, FailedResponse(RequestError(idx - 1, result.msg)))]

\* one iteration of `for i, result in enumerate(results)`; idx is i + 1
AggStep(acc, idx, result) ==
    IF result.kind = "exception"
    THEN [acc EXCEPT !.failed = @ + 1,
                     !.errors = Append(@, RequestError(idx - 1, result.msg)),
                     !.results = Append(@, FailedResponse(RequestError(idx - 1, result.msg)))]
    ELSE IF result.kind = "response"
    THEN IF result.resp.success
         THEN [acc EXCEPT !.successful = @ + 1,
                          !.results = Append(@, result.resp)]
         ELSE [acc EXCEPT !.failed = @ + 1,
                          !.errors = IF Truthy(result.resp.error)
                                     THEN Append(@, RequestError(idx - 1, Get(result.resp.error)))
                                     ELSE @,
                          !.results = Append(@, result.resp)]
    ELSE [acc EXCEPT !.failed = @ + 1,
                     !.errors = Append(@, RequestError(idx - 1, "Unknown error")),
                     !.results = Append(@, FailedResponse(RequestError(idx - 1, "Unknown error")))]

RECURSIVE AggLoop(_, _, _)
AggLoop(acc, idx, results) ==
    IF idx > Len(results) THEN acc
    ELSE AggLoop(AggStep(acc, idx, results[idx]), idx + 1, results)

\* the counters and lists of process_batch after its loop over the results,
\* with total_requests = len(requests)
Aggregate(reqs, results) ==
    AggLoop([total_requests |-> Len(reqs), successful |-> 0, failed |-> 0,
             results |-> <<>>, errors |-> <<>>], 1, results)

\* a validator that accepts a batch only when no item failed
validate_counts_noFailure(values) ==
    /\ values.successful = values.total_requests
    /\ Len(values.results) = values.total_requests

\* only the sum of the counts is checked
validate_counts_sumOnly(values) ==
    values.successful + values.failed = values.total_requests

\* BatchTTSResponse.validate_counts: TRUE when construction is accepted
validate_counts(values) ==
    /\ values.successful + values.failed = values.total_requests
    /\ Len(values.results) = values.total_requests

\* str() of the pydantic error validate_counts ends construction with
CountsErrorStr == "1 validation error for BatchTTSResponse"

\* BatchTTSResponse(...): the object, or the exception its validator raises
BatchTTSResponse(values) ==
    IF validate_counts(values)
    THEN [raised |-> FALSE, exc |-> "", value |-> values]
    ELSE [raised |-> TRUE, exc |-> CountsErrorStr, value |-> values]

\* ExceptValues without `failed=len(requests)`
ExceptValues_failedZero(reqs, e) ==
    [total_requests |-> Len(reqs), successful |-> 0, failed |-> 0,
     results |-> [i \in 1..Len(reqs) |-> FailedResponse(e)],
     errors |-> <<e>>]

\* the fields the `except Exception as e` handler of process_batch passes
ExceptValues(reqs, e) ==
    [total_requests |-> Len(reqs), successful |-> 0, failed |-> Len(reqs),
     results |-> [i \in 1..Len(reqs) |-> FailedResponse(e)],
     errors |-> <<e>>]

\* what process_batch ends with when its try block ended with `tried`
\* (a value, or an exception caught by `except Exception as e`)
ProcessBatchEnd(reqs, tried) ==
    IF tried.raised THEN BatchTTSResponse(ExceptValues(reqs, tried.exc))
    ELSE tried

Raise(e) == [raised |-> TRUE, exc |-> e,
             value |-> [total_requests |-> 0, successful |-> 0, failed |-> 0,
                        results |-> <<>>, errors |-> <<>>]]

(* -------------------------------- state -------------------------------- *)
MaxHash == 1            \* hash(text) % 1000000 is drawn from 0..MaxHash

VARIABLES
    requests,           \* the list given to process_batch: the text of each TTSRequest
    max_concurrent,     \* BatchProcessor.max_concurrent
    retry_attempts,     \* argument of process_batch
    max_retries,        \* TTSConfig.max_retries of the agent
    output_directory,   \* TRUE when process_batch is given an output directory
    failK,              \* Backend stub: the first failK[i] calls for item i fail,
                        \* the later ones succeed
    hashOf,             \* hash(text) % 1000000 of this interpreter run
    phase,              \* "init", "running", "finished": position of process_batch
    dirCreated,         \* output_dir.mkdir(...) was executed by process_batch
    pc,                 \* position of each _process_single_request coroutine
    attempt,            \* `attempt` of the loop of _process_single_request
    apiAttempt,         \* `attempt` of the loop of _call_openai_api
    calls,              \* Backend calls issued so far for each item
    taskResult,         \* what each coroutine returned
    semValue,           \* free slots of the asyncio.Semaphore
    semWaiters,         \* coroutines blocked in semaphore.acquire(), FIFO
    taskLogs,           \* entries of the Throttler younger than its period
    files,              \* content of each file of the output directory
    completionOrder,    \* items in the order their coroutines returned
    saveFails,          \* failed saves of the audio of each item so far
    batchOutcome,       \* "pending", "returned", "raised"
    batchResponse,      \* the BatchTTSResponse returned
    sleeps,             \* seconds of each asyncio.sleep of the loop of
                        \* _process_single_request, per item, in order
    concurrent_limit    \* BatchTTSRequest.concurrent_limit (None when process_batch
                        \* is called without a BatchTTSRequest)

\* one call of an operation of TTSAgent or StreamingTTS, or one construction of
\* a TTSRequest, outside any batch
VARIABLES
    op,                 \* the operation called
    text,               \* its argument `text`
    voice,              \* its argument `voice` (None when not given)
    model,              \* its argument `model`
    format,             \* its argument `format`
    speed,              \* its argument `speed`, in hundredths
    output_path,        \* its argument `output_path`
    callback,           \* TRUE when a chunk_callback / progress_callback is given
    kwargs,             \* the keyword arguments of a BatchTTSResponse(...)
    at,                 \* position of the coroutine
    request,            \* the TTSRequest the operation built
    apiCalls,           \* api_params of every call the Backend received
    callAttempt,        \* `attempt` of the loop of _call_openai_api
    failedCalls,        \* number of Backend calls that failed
    waited,             \* seconds the pending Backend call has gone unanswered
    received,           \* chunks the Backend delivered in the current call
    audio_data,         \* `audio_data` of _call_openai_api
    audio_chunks,       \* `audio_chunks` of the streaming operations
    yielded,            \* chunks stream_speech yielded to its consumer
    callbackLog,        \* invocations of the callback: argument and failure
    fs,                 \* content of each file the operation can touch
    fsLog,              \* file operations in the order they were made
    result              \* how the call ended: returned value or exception

agentVars == <<op, text, voice, model, format, speed, output_path, callback, kwargs, at,
               request, apiCalls, callAttempt, failedCalls, waited, received,
               audio_data, audio_chunks, yielded, callbackLog, fs, fsLog, result>>

batchVars == <<requests, max_concurrent, retry_attempts, max_retries, output_directory,
               failK, hashOf, phase, dirCreated, pc, attempt, apiAttempt, calls,
               taskResult, semValue, semWaiters, taskLogs, files, completionOrder,
               saveFails, batchOutcome, batchResponse, sleeps, concurrent_limit>>

vars == <<batchVars, agentVars>>

Pending == [kind |-> "pending", value |-> None, exc |-> "", fields |-> <<>>]

\* no operation is called outside the batch
NoCall ==
    /\ op = "none"
    /\ text = <<>>
    /\ voice = None /\ model = None /\ format = None /\ speed = None
    /\ output_path = None
    /\ callback = FALSE
    /\ kwargs = <<>>
    /\ at = "done"
    /\ request = None
    /\ apiCalls = <<>>
    /\ callAttempt = 0
    /\ failedCalls = 0
    /\ waited = 0
    /\ received = <<>>
    /\ audio_data = <<>>
    /\ audio_chunks = <<>>
    /\ yielded = <<>>
    /\ callbackLog = <<>>
    /\ fs = <<>>
    /\ fsLog = <<>>
    /\ result = Pending

params == <<requests, max_concurrent, retry_attempts, max_retries,
            output_directory, failK, hashOf, concurrent_limit>>

N == Len(requests)
Items == 1..N

OutputDir == "out"

\* f"tts_{hash(request.text) % 1000000}.{request.format}"
FileName(txt) == "tts_" \o NumStr(hashOf[txt]) \o "." \o Format

\* output_directory / filename
OutputPath(txt) == OutputDir \o "/" \o FileName(txt)

Paths == {OutputDir \o "/tts_" \o NumStr(h) \o "." \o Format : h \in 0..MaxHash}

NoResponse == TTSResponse(FALSE, None, None, None)

EmptyBatch == [total_requests |-> 0, successful |-> 0, failed |-> 0,
               results |-> <<>>, errors |-> <<>>]

\* the sizes of the batches explored: 0..MaxRequests and one above the ceiling
BatchSizes == (0..MaxRequests) \cup {MaxBatchSize + 1}

Init ==
    /\ max_concurrent \in 1..MaxConcurrent
    /\ retry_attempts \in 0..MaxRetryAttempts
    /\ max_retries \in 0..MaxApiRetries
    /\ \E n \in BatchSizes :
          /\ requests \in IF n <= MaxRequests THEN [1..n -> Texts]
                          ELSE {[i \in 1..n |-> "a"]}
          \* a stub with failK = TotalCalls stands for every stub that fails
          \* all the calls the item makes
          /\ failK \in IF n <= MaxRequests
                       THEN [1..n -> 0..TotalCalls(retry_attempts, max_retries)]
                       ELSE {[i \in 1..n |-> 0]}
    /\ output_directory \in BOOLEAN
    /\ hashOf \in IF output_directory THEN [Texts -> 0..MaxHash]
                  ELSE {[t \in Texts |-> 0]}
    /\ phase = "init"
    /\ dirCreated = FALSE
    /\ pc = [i \in Items |-> "created"]
    /\ attempt = [i \in Items |-> 0]
    /\ apiAttempt = [i \in Items |-> 0]
    /\ calls = [i \in Items |-> 0]
    /\ taskResult = [i \in Items |-> NoResponse]
    /\ semValue = 0
    /\ semWaiters = <<>>
    /\ taskLogs = 0
    /\ files = [p \in Paths |-> None]
    /\ completionOrder = <<>>
    /\ saveFails = [i \in Items |-> 0]
    /\ batchOutcome = "pending"
    /\ batchResponse = EmptyBatch
    /\ sleeps = [i \in Items |-> <<>>]
    /\ concurrent_limit = None
    /\ NoCall

(* --------------------------- process_batch ----------------------------- *)
\* the validation without its ceiling on the batch size
BatchInputError_noCeiling(reqs) ==
    IF Len(reqs) = 0
    THEN Some(TTSValidationErrorStr("No requests provided for batch processing"))
    ELSE None

\* `if not requests` and `if len(requests) > 100`: the str() of the
\* TTSValidationError raised, or None when the batch passes both
BatchInputError(reqs) ==
    IF Len(reqs) = 0
    THEN Some(TTSValidationErrorStr("No requests provided for batch processing"))
    ELSE IF Len(reqs) > MaxBatchSize
    THEN Some(TTSValidationErrorStr("Maximum 100 requests allowed per batch"))
    ELSE None

\* a semaphore one slot too narrow
InitialSemValue_oneLess(mc) == mc - 1

\* a semaphore one slot too wide
InitialSemValue_offByOne(mc) == mc + 1

\* asyncio.Semaphore(self.max_concurrent)
InitialSemValue(mc) == mc

\* Throttler(rate_limit=max_concurrent, period=1.0)
RateLimit(mc) == mc

\* process_batch ends: its try block ended with `tried`
FinishBatch(tried) ==
    LET end == ProcessBatchEnd(requests, tried) IN
    /\ phase' = "finished"
    /\ batchOutcome' = IF end.raised THEN "raised" ELSE "returned"
    /\ batchResponse' = IF end.raised THEN EmptyBatch ELSE end.value

\* process_batch from its call to `await asyncio.gather(...)`: validation,
\* output directory, semaphore, creation of the coroutines
ProcessBatchStart ==
    /\ phase = "init"
    /\ LET err == BatchInputError(requests) IN
       IF err # None
       THEN /\ FinishBatch(Raise(Get(err)))
            /\ UNCHANGED <<dirCreated, semValue>>
       ELSE \E mkdirOk \in (IF output_directory THEN BOOLEAN ELSE {TRUE}) :
               IF mkdirOk
               THEN /\ dirCreated' = output_directory
                    /\ semValue' = InitialSemValue(max_concurrent)
                    /\ phase' = "running"
                    /\ UNCHANGED <<batchOutcome, batchResponse>>
               ELSE /\ FinishBatch(Raise(OSErrorStr))
                    /\ UNCHANGED <<dirCreated, semValue>>
    /\ UNCHANGED <<agentVars, params, sleeps, pc, attempt, apiAttempt, calls, taskResult,
                   semWaiters, taskLogs, files, completionOrder, saveFails>>

\* results collected as the coroutines complete (asyncio.as_completed)
GatherResults_asCompleted ==
    [i \in Items |-> GatherResponse(taskResult[completionOrder[i]])]

\* the list `results` of process_batch: gather returns the coroutines'
\* results in the order of its arguments
GatherResults == [i \in Items |-> GatherResponse(taskResult[i])]

\* process_batch from the return of gather to its own return
GatherReturn ==
    /\ phase = "running"
    /\ \A i \in Items : pc[i] = "done"
    /\ FinishBatch(BatchTTSResponse(Aggregate(requests, GatherResults)))
    /\ UNCHANGED <<agentVars, params, sleeps, dirCreated, pc, attempt, apiAttempt, calls, taskResult,
                   semValue, semWaiters, taskLogs, files, completionOrder, saveFails>>

(* ---------------------- _process_single_request ------------------------ *)
\* asyncio.Semaphore.acquire() returns without blocking
SemCanAcquire(value, waiters) == value > 0 /\ waiters = <<>>

\* a retry loop that gives up one attempt early
ShouldRetry_oneLess(att, r) == att + 1 < r

\* a retry loop that allows one attempt more
ShouldRetry_oneMore(att, r) == att < r + 1

\* `if attempt < retry_attempts` of both branches of the retry loop
ShouldRetry(att, r) == att < r

\* f"Failed after {retry_attempts + 1} attempts: {str(e)}"
FailedAfterMsg(r, e) == "Failed after " \o NumStr(r + 1) \o " attempts: " \o e

\* f"API call failed after {self.config.max_retries + 1} attempts: {str(e)}"
ApiFailedMsg(m, e) == "API call failed after " \o NumStr(m + 1) \o " attempts: " \o e

\* f"Unexpected error: {str(e)}" of generate_speech
UnexpectedMsg(e) == "Unexpected error: " \o e

\* the coroutine of item i starts: `async with semaphore`.  The event loop
\* starts the coroutines in the order gather was given them.
TaskStart(i) ==
    /\ phase = "running"
    /\ pc[i] = "created"
    /\ \A j \in Items : j < i => pc[j] # "created"
    /\ IF SemCanAcquire(semValue, semWaiters)
       THEN /\ semValue' = semValue - 1
            /\ pc' = [pc EXCEPT ![i] = "throttle"]
            /\ UNCHANGED semWaiters
       ELSE /\ semWaiters' = Append(semWaiters, i)
            /\ pc' = [pc EXCEPT ![i] = "gate"]
            /\ UNCHANGED semValue
    /\ UNCHANGED <<agentVars, params, sleeps, phase, dirCreated, attempt, apiAttempt, calls, taskResult,
                   taskLogs, files, completionOrder, saveFails, batchOutcome, batchResponse>>

\* `async with self.throttler` admits item i, which enters the retry loop,
\* calls generate_speech and issues its first Backend call
ThrottlerAcquire(i) ==
    /\ pc[i] = "throttle"
    /\ taskLogs < RateLimit(max_concurrent)
    /\ taskLogs' = taskLogs + 1
    /\ pc' = [pc EXCEPT ![i] = "call"]
    /\ calls' = [calls EXCEPT ![i] = @ + 1]
    /\ UNCHANGED <<agentVars, params, sleeps, phase, dirCreated, attempt, apiAttempt, taskResult,
                   semValue, semWaiters, files, completionOrder, saveFails, batchOutcome,
                   batchResponse>>

\* the oldest entry of the throttler becomes older than its period
ThrottlerFlush ==
    /\ phase = "running"
    /\ taskLogs > 0
    /\ taskLogs' = taskLogs - 1
    /\ UNCHANGED <<agentVars, params, sleeps, phase, dirCreated, pc, attempt, apiAttempt, calls,
                   taskResult, semValue, semWaiters, files, completionOrder,
                   saveFails, batchOutcome, batchResponse>>

\* a return that keeps the slot of the semaphore
Finish_keepsSlot(i, resp) ==
    /\ taskResult' = [taskResult EXCEPT ![i] = resp]
    /\ completionOrder' = Append(completionOrder, i)
    /\ pc' = [pc EXCEPT ![i] = "done"]
    /\ UNCHANGED <<semValue, semWaiters>>

\* a release that frees the slot without waking the first waiter
Finish_noWakeUp(i, resp) ==
    /\ taskResult' = [taskResult EXCEPT ![i] = resp]
    /\ completionOrder' = Append(completionOrder, i)
    /\ semValue' = semValue + 1
    /\ pc' = [pc EXCEPT ![i] = "done"]
    /\ UNCHANGED semWaiters

\* the coroutine of item i returns resp: both `async with` blocks are left,
\* the semaphore slot goes to the first waiter if there is one
Finish(i, resp) ==
    /\ taskResult' = [taskResult EXCEPT ![i] = resp]
    /\ completionOrder' = Append(completionOrder, i)
    /\ IF semWaiters = <<>>
       THEN /\ semValue' = semValue + 1
            /\ pc' = [pc EXCEPT ![i] = "done"]
            /\ UNCHANGED semWaiters
       ELSE /\ semWaiters' = Tail(semWaiters)
            /\ pc' = [pc EXCEPT ![i] = "done", ![Head(semWaiters)] = "throttle"]
            /\ UNCHANGED semValue

\* a pause of one second whatever the attempt
BackoffDelay_constant(att) == 1

\* `await asyncio.sleep(1.0 * (attempt + 1))`, in seconds
BackoffDelay(att) == att + 1

\* the body of the retry loop after generate_speech ended with `outcome`
\* (a TTSResponse, or an exception)
AfterGenerate(i, outcome) ==
    IF ~outcome.raised /\ outcome.resp.success
    THEN Finish(i, outcome.resp) /\ UNCHANGED sleeps
    ELSE IF ShouldRetry(attempt[i], retry_attempts)
    THEN /\ pc' = [pc EXCEPT ![i] = "backoff"]
         /\ sleeps' = [sleeps EXCEPT ![i] = Append(@, BackoffDelay(attempt[i]))]
         /\ UNCHANGED <<taskResult, completionOrder, semValue, semWaiters>>
    ELSE /\ Finish(i, IF outcome.raised
                      THEN FailedResponse(FailedAfterMsg(retry_attempts, outcome.exc))
                      ELSE outcome.resp)
         /\ UNCHANGED sleeps

Returned(resp) == [raised |-> FALSE, exc |-> "", resp |-> resp]
Raised(e) == [raised |-> TRUE, exc |-> e, resp |-> NoResponse]

\* the Backend call of item i fails: the except branch of _call_openai_api,
\* then (retries used up) TTSAPIError through generate_speech to the retry loop
BackendFail(i) ==
    /\ pc[i] = "call"
    /\ calls[i] <= failK[i]
    /\ IF apiAttempt[i] < max_retries
       THEN /\ pc' = [pc EXCEPT ![i] = "api_sleep"]
            /\ UNCHANGED <<taskResult, completionOrder, semValue, semWaiters, sleeps>>
       ELSE AfterGenerate(i, Raised(TTSAPIErrorStr(
                ApiFailedMsg(max_retries, BackendErrorStr(calls[i])))))
    /\ UNCHANGED <<agentVars, params, phase, dirCreated, attempt, apiAttempt, calls, taskLogs,
                   files, saveFails, batchOutcome, batchResponse>>

\* the Backend call of item i succeeds: generate_speech builds the response
\* and saves the audio when an output path was given
BackendSucceed(i) ==
    /\ pc[i] = "call"
    /\ calls[i] > failK[i]
    /\ LET audio == Synthesize(requests[i])
           path == OutputPath(requests[i])
       IN IF ~output_directory
          THEN /\ AfterGenerate(i, Returned(TTSResponse(TRUE, Some(audio), None, None)))
               /\ UNCHANGED <<files, saveFails>>
          ELSE \E save \in {"ok", "open fails", "write fails"} :
                 IF save = "ok"
                 THEN /\ files' = [files EXCEPT ![path] = Some(audio)]
                      /\ UNCHANGED saveFails
                      /\ AfterGenerate(i, Returned(
                            TTSResponse(TRUE, Some(audio), Some(path), None)))
                 ELSE /\ files' = IF save = "write fails"
                                  THEN [files EXCEPT ![path] = Some(<<>>)]
                                  ELSE files
                      /\ saveFails' = [saveFails EXCEPT ![i] = @ + 1]
                      /\ AfterGenerate(i, Returned(FailedResponse(UnexpectedMsg(
                            TTSFileErrorStr("Failed to save audio file: " \o OSErrorStr,
                                            path)))))
    /\ UNCHANGED <<agentVars, params, phase, dirCreated, attempt, apiAttempt, calls, taskLogs,
                   batchOutcome, batchResponse>>

\* asyncio.sleep of _call_openai_api ends: next Backend call of the same
\* generate_speech
ApiSleepWake(i) ==
    /\ pc[i] = "api_sleep"
    /\ apiAttempt' = [apiAttempt EXCEPT ![i] = @ + 1]
    /\ calls' = [calls EXCEPT ![i] = @ + 1]
    /\ pc' = [pc EXCEPT ![i] = "call"]
    /\ UNCHANGED <<agentVars, params, sleeps, phase, dirCreated, attempt, taskResult, semValue,
                   semWaiters, taskLogs, files, completionOrder, saveFails, batchOutcome,
                   batchResponse>>

\* asyncio.sleep of the retry loop ends: next attempt, a new generate_speech
BackoffWake(i) ==
    /\ pc[i] = "backoff"
    /\ attempt' = [attempt EXCEPT ![i] = @ + 1]
    /\ apiAttempt' = [apiAttempt EXCEPT ![i] = 0]
    /\ calls' = [calls EXCEPT ![i] = @ + 1]
    /\ pc' = [pc EXCEPT ![i] = "call"]
    /\ UNCHANGED <<agentVars, params, sleeps, phase, dirCreated, taskResult, semValue, semWaiters,
                   taskLogs, files, completionOrder, saveFails, batchOutcome, batchResponse>>

Next ==
    \/ ProcessBatchStart
    \/ GatherReturn
    \/ ThrottlerFlush
    \/ \E i \in Items : TaskStart(i)
    \/ \E i \in Items : ThrottlerAcquire(i)
    \/ \E i \in Items : BackendFail(i)
    \/ \E i \in Items : BackendSucceed(i)
    \/ \E i \in Items : ApiSleepWake(i)
    \/ \E i \in Items : BackoffWake(i)

Spec == Init /\ [][Next]_vars

(* ------------------------------- claims -------------------------------- *)
Dispatched == N >= 1 /\ \A i \in Items : pc[i] = "done"
Succeeded(i) == taskResult[i].success
InFlight == {i \in Items : pc[i] \in {"throttle", "call", "api_sleep", "backoff"}}

\* C1: every call of process_batch on a batch of 1..100 requests returns a
\* BatchTTSResponse with successful + failed = total_requests = len(requests)
\* and len(results) = total_requests, whatever the outcomes of the items.
C1_CountsReconcile ==
    (phase = "finished" /\ N >= 1 /\ N <= MaxBatchSize) =>
        /\ batchOutcome = "returned"
        /\ batchResponse.successful + batchResponse.failed = batchResponse.total_requests
        /\ batchResponse.total_requests = N
        /\ Len(batchResponse.results) = batchResponse.total_requests

\* a two-item batch returned with one success and one failure
C1_Witness ==
    /\ phase = "finished" /\ N = 2 /\ Dispatched
    /\ batchResponse.successful = 1 /\ batchResponse.failed = 1

\* C2: results[i] of the returned BatchTTSResponse is the outcome of
\* requests[i] (what the coroutine of item i returned, the audio of its own
\* text when it succeeded), also when the items complete out of order.
C2_IndexAligned ==
    (phase = "finished" /\ Dispatched) =>
        \A i \in Items :
            /\ batchResponse.results[i] = taskResult[i]
            /\ batchResponse.results[i].success =>
                  batchResponse.results[i].audio_data = Some(Synthesize(requests[i]))

\* item 2 completed before item 1, with another outcome than item 1
C2_Witness ==
    /\ phase = "finished" /\ N = 2
    /\ completionOrder = <<2, 1>>
    /\ batchResponse.results[1] # batchResponse.results[2]
    /\ batchResponse.results[1].success

\* C3: the items that hold a slot of the semaphore and have not returned
\* are never more than max_concurrent.
C3_InFlightBounded == Cardinality(InFlight) <= max_concurrent

\* max_concurrent items in flight while another one waits at the semaphore
C3_Witness ==
    /\ Cardinality(InFlight) = max_concurrent
    /\ \E i \in Items : pc[i] = "gate"

\* the error of an item whose every attempt ended with a Backend failure:
\* it carries str(e) of the last Backend call the item made
LastAttemptError(i) ==
    FailedAfterMsg(retry_attempts,
                   TTSAPIErrorStr(ApiFailedMsg(max_retries, BackendErrorStr(calls[i]))))

\* C4 as claimed: with a Backend failing the first k calls for an item, the
\* item succeeds when retry_attempts >= k, and fails with the error of the
\* last attempt when retry_attempts < k.
C4_Original ==
    \A i \in Items :
        (pc[i] = "done" /\ saveFails[i] = 0) =>
            /\ retry_attempts >= failK[i] => Succeeded(i)
            /\ retry_attempts < failK[i] =>
                  ~Succeeded(i) /\ taskResult[i].error = Some(LastAttemptError(i))

\* C4, amended: with a Backend failing the first k calls for an item (and no
\* failed save), the item succeeds exactly when
\* k < (retry_attempts + 1) * (max_retries + 1), so whenever
\* retry_attempts >= k; otherwise it fails after that many calls, with the
\* error of the last call.
C4_RetryOutcome ==
    \A i \in Items :
        (pc[i] = "done" /\ saveFails[i] = 0) =>
            /\ Succeeded(i) <=> failK[i] < TotalCalls(retry_attempts, max_retries)
            /\ retry_attempts >= failK[i] => Succeeded(i)
            /\ Succeeded(i) => calls[i] = failK[i] + 1
            /\ ~Succeeded(i) =>
                  /\ calls[i] = TotalCalls(retry_attempts, max_retries)
                  /\ taskResult[i].error = Some(LastAttemptError(i))

\* one item succeeded although retry_attempts < k, another one used up all
\* its calls
C4_Witness ==
    /\ \E i \in Items : pc[i] = "done" /\ saveFails[i] = 0 /\ Succeeded(i)
                        /\ retry_attempts < failK[i]
    /\ \E i \in Items : pc[i] = "done" /\ saveFails[i] = 0 /\ ~Succeeded(i)
                        /\ retry_attempts >= 1

\* C5: an item failing on every attempt does not change the outcome of its
\* siblings: every item whose Backend calls succeed (and whose own save does
\* not fail) ends with success, and process_batch returns its response.
C5_SiblingsUnaffected ==
    /\ \A j \in Items :
          (pc[j] = "done" /\ failK[j] = 0 /\ saveFails[j] = 0) => Succeeded(j)
    /\ (phase = "finished" /\ Dispatched) =>
          /\ batchOutcome = "returned"
          /\ \A j \in Items :
                (failK[j] = 0 /\ saveFails[j] = 0) =>
                    /\ batchResponse.results[j].success
                    /\ batchResponse.results[j].audio_data = Some(Synthesize(requests[j]))

\* a returned batch with an item that failed all its calls and a sibling
\* that succeeded
C5_Witness ==
    /\ phase = "finished" /\ Dispatched
    /\ \E i, j \in Items :
          /\ failK[i] = TotalCalls(retry_attempts, max_retries)
          /\ ~batchResponse.results[i].success
          /\ failK[j] = 0 /\ batchResponse.results[j].success

\* C6 as claimed: no item is kept from starting while a sibling sleeps in
\* backoff between its retries.
C6_Original ==
    \A i, j \in Items : ~(pc[i] = "gate" /\ pc[j] = "backoff")

\* C6, amended: an item that holds a slot is never blocked by its siblings
\* (its Backend call can end, its sleeps can end), and an item waits at the
\* semaphore only while all max_concurrent slots are held; a slot stays held
\* while its holder sleeps between retries.
C6_HoldersNeverBlocked ==
    \A i \in Items :
        /\ pc[i] = "call" => ENABLED (BackendFail(i) \/ BackendSucceed(i))
        /\ pc[i] = "api_sleep" => ENABLED ApiSleepWake(i)
        /\ pc[i] = "backoff" => ENABLED BackoffWake(i)
        /\ pc[i] = "gate" => Cardinality(InFlight) = max_concurrent

\* an item waits at the semaphore while every slot is held by an item
\* sleeping before its first retry
C6_Witness ==
    /\ \E i \in Items : pc[i] = "gate"
    /\ \A j \in InFlight : pc[j] = "backoff" /\ attempt[j] = 0
    /\ Cardinality(InFlight) = max_concurrent

Malformed == N = 0 \/ N > MaxBatchSize

\* C7 as claimed: process_batch on an empty list or on more than 100
\* requests fails as a whole with a ValidationError.
C7_Original ==
    (phase = "finished" /\ Malformed) => batchOutcome = "raised"

\* C8: for a malformed batch nothing is dispatched: no Backend call, no slot
\* of the semaphore taken, no entry in the throttler, no output directory.
C8_NothingDispatched ==
    Malformed =>
        /\ \A i \in Items : pc[i] = "created" /\ calls[i] = 0
        /\ semValue = 0 /\ semWaiters = <<>> /\ taskLogs = 0
        /\ ~dirCreated
        /\ \A p \in Paths : files[p] = None

\* process_batch has ended on an oversized batch given an output directory
C8_Witness ==
    phase = "finished" /\ N > MaxBatchSize /\ output_directory

RECURSIVE FailedErrors(_, _)
\* "Request {index}: {error}" of the failed entries of results from idx on
FailedErrors(results, idx) ==
    IF idx > Len(results) THEN <<>>
    ELSE IF results[idx].success THEN FailedErrors(results, idx + 1)
    ELSE <<RequestError(idx - 1, Get(results[idx].error))>>
             \o FailedErrors(results, idx + 1)

\* C9 as claimed: errors of every returned BatchTTSResponse holds one
\* "Request {index}: {error}" per failed item, in index order, so
\* len(errors) = failed.
C9_Original ==
    (phase = "finished" /\ batchOutcome = "returned") =>
        /\ Len(batchResponse.errors) = batchResponse.failed
        /\ batchResponse.errors = FailedErrors(batchResponse.results, 1)

\* on the path through gather the errors are one per failed item, in index
\* order; it is the `except Exception` path that breaks C9
C9_DispatchedErrors ==
    (phase = "finished" /\ Dispatched) =>
        /\ Len(batchResponse.errors) = batchResponse.failed
        /\ batchResponse.errors = FailedErrors(batchResponse.results, 1)

RECURSIVE CountSuccess(_, _)
CountSuccess(results, idx) ==
    IF idx > Len(results) THEN 0
    ELSE (IF results[idx].success THEN 1 ELSE 0) + CountSuccess(results, idx + 1)

\* C10: in every returned BatchTTSResponse, successful is the number of
\* results with success = True and failed the number with success = False.
C10_CountsMatchResults ==
    (phase = "finished" /\ batchOutcome = "returned") =>
        /\ batchResponse.successful = CountSuccess(batchResponse.results, 1)
        /\ batchResponse.failed =
              Len(batchResponse.results) - CountSuccess(batchResponse.results, 1)

\* a returned batch whose first item failed and whose second succeeded
C10_Witness ==
    /\ phase = "finished" /\ batchOutcome = "returned" /\ N = 2
    /\ ~batchResponse.results[1].success
    /\ batchResponse.results[2].success

\* C11 (as stated): an attempt that fails for a reason other than the
\* Backend, here the write of the output file, ends the item at once: the item
\* is done after that single failure, with no backoff sleep and no new attempt.
C11_Original ==
    \A i \in Items : saveFails[i] >= 1 => pc[i] = "done" /\ saveFails[i] = 1

(* ------------------------------ TTSRequest ------------------------------ *)
MinTextLength == 1         \* min_length of TTSRequest.text
MaxTextLength == 4096      \* max_length of TTSRequest.text
SpeedMin == 25             \* ge=0.25 of TTSRequest.speed, in hundredths
SpeedMax == 400            \* le=4.0 of TTSRequest.speed, in hundredths
DefaultSpeed == 100        \* 1.0, in hundredths

Voices == {"alloy", "echo", "fable", "onyx", "nova", "shimmer"}
AudioFormats == {"mp3", "opus", "aac", "flac"}
TTSModels == {"tts-1", "tts-1-hd"}
DefaultVoice == "alloy"
DefaultModel == "tts-1"

\* A str is kept as its runs of equal characters, <<[ch, n], ...>>, so that a
\* text at the length ceiling stays small.
Run(ch, n) == [ch |-> ch, n |-> n]
Whitespace == {" "}

RECURSIVE TextLen(_)
\* len(v)
TextLen(v) == IF v = <<>> THEN 0 ELSE Head(v).n + TextLen(Tail(v))

RECURSIVE LStrip(_)
LStrip(v) == IF v # <<>> /\ Head(v).ch \in Whitespace THEN LStrip(Tail(v)) ELSE v

RECURSIVE RStrip(_)
RStrip(v) == IF v # <<>> /\ v[Len(v)].ch \in Whitespace
             THEN RStrip(SubSeq(v, 1, Len(v) - 1)) ELSE v

\* v.strip()
Strip(v) == RStrip(LStrip(v))

Valid(v) == [ok |-> TRUE, value |-> v]
Invalid == [ok |-> FALSE, value |-> None]

\* validate_text applied to the unchecked value: the length limits of the
\* field are not enforced
TextField_noLimits(v) ==
    IF Strip(v) = <<>> THEN Invalid ELSE Valid(Strip(v))

\* the field `text`: the length limits of Field(...) on the value as given,
\* then the validator validate_text
TextField(v) ==
    IF TextLen(v) < MinTextLength \/ TextLen(v) > MaxTextLength THEN Invalid
    ELSE IF Strip(v) = <<>> THEN Invalid
    ELSE Valid(Strip(v))

\* the speed limits taken as strict
SpeedField_strict(v) ==
    IF v <= SpeedMin \/ v >= SpeedMax THEN Invalid ELSE Valid(v)

\* the field `speed`: ge and le of Field(...), then the validator
\* validate_speed
SpeedField(v) ==
    IF v < SpeedMin \/ v > SpeedMax THEN Invalid
    ELSE IF ~(SpeedMin <= v /\ v <= SpeedMax) THEN Invalid
    ELSE Valid(v)

\* a field of an Enum type (use_enum_values keeps the value)
EnumField(v, members) == IF v \in members THEN Valid(v) ELSE Invalid

\* a field that was not given takes the default of the model
FieldOrDefault(o, default, members) ==
    IF o = None THEN Valid(default) ELSE EnumField(Get(o), members)

RECURSIVE JoinNames(_)
JoinNames(names) == IF names = <<>> THEN ""
                    ELSE " " \o Head(names) \o JoinNames(Tail(names))

\* str() of the pydantic ValidationError: the count and the fields at fault
ValidationErrorStr(fields) ==
    NumStr(Len(fields)) \o " validation error for TTSRequest:" \o JoinNames(fields)

\* TTSRequest(text=t, voice=v, model=m, format=f, speed=s); None is an
\* argument that was not given
TTSRequest(t, v, m, f, s) ==
    LET fld == [text   |-> TextField(t),
                voice  |-> FieldOrDefault(v, DefaultVoice, Voices),
                model  |-> FieldOrDefault(m, DefaultModel, TTSModels),
                format |-> FieldOrDefault(f, Format, AudioFormats),
                speed  |-> IF s = None THEN Valid(DefaultSpeed)
                           ELSE SpeedField(Get(s))]
        order == <<"text", "voice", "model", "format", "speed">>
        bad == SelectSeq(order, LAMBDA k : ~fld[k].ok)
    IN IF bad = <<>>
       THEN [ok |-> TRUE, errors |-> <<>>,
             value |-> [k \in DOMAIN fld |-> fld[k].value]]
       ELSE [ok |-> FALSE, errors |-> bad, value |-> None]

(* --------------------- one call outside the batch ----------------------- *)
MaxPad == 1             \* longest run of blanks around a text
MaxChunks == 2          \* most chunks the Backend delivers in one call

\* `o or default` for a str-valued argument
OrDefault(o, default) == IF Truthy(o) THEN Get(o) ELSE default

\* `speed or default`: None and 0.0 are both falsy
OrDefaultNum(o, default) == IF o # None /\ Get(o) # 0 THEN Get(o) ELSE default

\* the TTSRequest every operation of the agent builds from its arguments and
\* the defaults of TTSConfig
AgentRequest(t, v, m, f, s) ==
    TTSRequest(t, Some(OrDefault(v, DefaultVoice)), Some(OrDefault(m, DefaultModel)),
               Some(OrDefault(f, Format)), Some(OrDefaultNum(s, DefaultSpeed)))

\* l blanks, b letters, t blanks
MkText(l, b, t) ==
    IF b = 0 THEN (IF l + t > 0 THEN <<Run(" ", l + t)>> ELSE <<>>)
    ELSE (IF l > 0 THEN <<Run(" ", l)>> ELSE <<>>) \o <<Run("A", b)>>
         \o (IF t > 0 THEN <<Run(" ", t)>> ELSE <<>>)

BodyLengths == {0, 1, MaxTextLength - 1, MaxTextLength, MaxTextLength + 1}

TextInputs ==
    {MkText(l, b, t) : l \in 0..MaxPad, b \in BodyLengths, t \in 0..MaxPad}
    \cup {<<Run("A", 1), Run(" ", 1), Run("A", 1)>>}

SpeedInputs ==
    {None} \cup {Some(x) : x \in {-100, 0, 10, SpeedMin - 1, SpeedMin, DefaultSpeed,
                                  200, SpeedMax, SpeedMax + 1, 500}}
VoiceInputs == {None, Some("echo"), Some("robot"), Some("")}
ModelInputs == {None, Some("tts-1-hd"), Some("gpt")}
FormatInputs == {None, Some("opus"), Some("wav")}

\* the arguments the operations of the agent are called with
CallTexts == {MkText(l, b, 0) : l \in 0..MaxPad, b \in {0, 1}}
CallSpeeds == {None, Some(0), Some(10), Some(200)}
CallModels == {None, Some("gpt")}

\* a path: its name without the suffix, and the suffix
PathInputs == {[stem |-> "out", suffix |-> ""], [stem |-> "out", suffix |-> ".wav"]}
PathStr(p) == p.stem \o p.suffix

\* `if not output_path.suffix: output_path = output_path.with_suffix(f".{f}")`
WithSuffix(p, f) == IF p.suffix = "" THEN [p EXCEPT !.suffix = "." \o f] ELSE p

FsPaths == {PathStr(WithSuffix(p, f)) : p \in PathInputs, f \in AudioFormats \cup {"wav"}}

\* the chunks the Backend can deliver (bytes are numbers)
ChunkValues == {<<>>, <<1>>, <<2, 3>>}
OldContent == <<9>>

RECURSIVE Join(_)
\* b"".join(chunks)
Join(chunks) == IF chunks = <<>> THEN <<>> ELSE Head(chunks) \o Join(Tail(chunks))

StreamOps == {"stream_speech", "stream_speech_to_file", "stream_speech_with_progress"}
Operations == {"TTSRequest", "generate_speech", "generate_speech_streaming"}
              \cup StreamOps

\* no batch is processed
NoBatch ==
    /\ requests = <<>>
    /\ max_concurrent = 1
    /\ retry_attempts = 0
    /\ output_directory = FALSE
    /\ failK = <<>>
    /\ hashOf = [t \in Texts |-> 0]
    /\ phase = "none"
    /\ dirCreated = FALSE
    /\ pc = <<>> /\ attempt = <<>> /\ apiAttempt = <<>> /\ calls = <<>>
    /\ taskResult = <<>>
    /\ semValue = 0
    /\ semWaiters = <<>>
    /\ taskLogs = 0
    /\ files = [p \in Paths |-> None]
    /\ completionOrder = <<>>
    /\ saveFails = <<>>
    /\ batchOutcome = "pending"
    /\ batchResponse = EmptyBatch
    /\ sleeps = <<>>
    /\ concurrent_limit = None

InitCall ==
    /\ NoBatch
    /\ op \in Operations
    /\ max_retries \in IF op = "generate_speech" THEN 0..MaxApiRetries ELSE {0}
    /\ text \in IF op = "TTSRequest" THEN TextInputs ELSE CallTexts
    /\ speed \in IF op = "TTSRequest" THEN SpeedInputs ELSE CallSpeeds
    /\ voice \in VoiceInputs
    /\ model \in IF op = "TTSRequest" THEN ModelInputs ELSE CallModels
    /\ format \in FormatInputs
    /\ output_path \in
         CASE op \in {"TTSRequest", "stream_speech_with_progress"} -> {None}
           [] op = "stream_speech_to_file" -> {Some(p) : p \in PathInputs}
           [] OTHER -> {None} \cup {Some(p) : p \in PathInputs}
    /\ callback \in IF op \in StreamOps THEN BOOLEAN ELSE {FALSE}
    /\ kwargs = <<>>
    /\ fs \in IF op = "TTSRequest" THEN {[p \in FsPaths |-> None]}
              ELSE {[p \in FsPaths |-> old] : old \in {None, Some(OldContent)}}
    /\ at = "start"
    /\ request = None
    /\ apiCalls = <<>>
    /\ callAttempt = 0
    /\ failedCalls = 0
    /\ waited = 0
    /\ received = <<>>
    /\ audio_data = <<>>
    /\ audio_chunks = <<>>
    /\ yielded = <<>>
    /\ callbackLog = <<>>
    /\ fsLog = <<>>
    /\ result = Pending

callArgs == <<op, text, voice, model, format, speed, output_path, callback, kwargs>>

\* the call returned v
Return(v) == [kind |-> "returned", value |-> Some(v), exc |-> "", fields |-> <<>>]

\* the call raised an exception whose str() is e (flds: the fields at fault
\* of a pydantic ValidationError)
Throw(e, flds) == [kind |-> "raised", value |-> None, exc |-> e, fields |-> flds]

StreamFailedMsg(e) == "Streaming speech failed: " \o e
ToFileFailedMsg(e) == "Streaming to file failed: " \o e
ProgressFailedMsg(e) == "Streaming with progress failed: " \o e
StreamingApiFailedMsg(e) == "Streaming API call failed: " \o e
SaveStreamingFailedMsg(e) == "Failed to save streaming audio: " \o e
SaveFailedMsg(e) == "Failed to save audio file: " \o e
CallbackErrorStr == "callback error"

\* str() of the TTSAgentError that leaves the operation when the exception e
\* was raised inside the try block of stream_speech
StreamError(e) ==
    CASE op = "stream_speech" -> StreamFailedMsg(e)
      [] op = "stream_speech_to_file" -> ToFileFailedMsg(StreamFailedMsg(e))
      [] op = "stream_speech_with_progress" -> ProgressFailedMsg(StreamFailedMsg(e))

\* the metadata without the key "streaming", whatever the operation
Metadata_noStreaming(req, n, streaming) ==
    [voice |-> req.voice, model |-> req.model, format |-> req.format,
     speed |-> req.speed, text_length |-> n]

\* the dict `metadata` of a successful response
Metadata(req, n, streaming) ==
    LET base == [voice |-> req.voice, model |-> req.model, format |-> req.format,
                 speed |-> req.speed, text_length |-> n]
    IN IF streaming THEN [streaming |-> TRUE] @@ base ELSE base

\* no file size at all
FileSize_none(audio) == None

\* `len(audio_data) if audio_data else None`
FileSize(audio) == IF audio # <<>> THEN Some(Len(audio)) ELSE None

\* the TTSResponse of a successful call, before the audio is saved
SpeechResponse(audio, req, n, streaming) ==
    [success |-> TRUE, audio_data |-> Some(audio), file_path |-> None,
     error |-> None, file_size |-> FileSize(audio),
     metadata |-> Some(Metadata(req, n, streaming))]

\* TTSResponse(success=False, error=e)
FailedSpeech(e) ==
    [success |-> FALSE, audio_data |-> None, file_path |-> None,
     error |-> Some(e), file_size |-> None, metadata |-> None]

\* api_params of the Backend call for the request req
ApiParams(req) ==
    [model |-> req.model, voice |-> req.voice, input |-> req.text,
     response_format |-> req.format, speed |-> req.speed]

FileOp(kind, path, data) ==
    [kind |-> kind, path |-> path, data |-> data, after |-> Len(yielded)]

\* TTSRequest(...) called directly
Construct ==
    /\ op = "TTSRequest"
    /\ at = "start"
    /\ LET r == TTSRequest(text, voice, model, format, speed)
       IN /\ request' = IF r.ok THEN Some(r.value) ELSE None
          /\ result' = IF r.ok THEN Return(r.value)
                       ELSE Throw(ValidationErrorStr(r.errors), r.errors)
    /\ at' = "done"
    /\ UNCHANGED <<batchVars, callArgs, waited, failedCalls, apiCalls, callAttempt, received, audio_data,
                   audio_chunks, yielded, callbackLog, fs, fsLog>>

\* the first statement of the try block of generate_speech,
\* generate_speech_streaming and stream_speech: the request is built, and a
\* ValidationError ends the operation
BuildRequest ==
    LET r == AgentRequest(text, voice, model, format, speed)
        e == ValidationErrorStr(r.errors)
    IN IF r.ok
       THEN /\ request' = Some(r.value)
            /\ at' = "call"
            /\ UNCHANGED result
       ELSE /\ request' = None
            /\ at' = "done"
            /\ result' = IF op \in StreamOps THEN Throw(StreamError(e), r.errors)
                         ELSE Return(FailedSpeech(UnexpectedMsg(e)))

Begin ==
    /\ op \in Operations \ {"TTSRequest", "stream_speech_to_file"}
    /\ at = "start"
    /\ BuildRequest
    /\ UNCHANGED <<batchVars, callArgs, waited, failedCalls, apiCalls, callAttempt, received, audio_data,
                   audio_chunks, yielded, callbackLog, fs, fsLog>>

\* the path stream_speech_to_file opens
ToFilePath == PathStr(WithSuffix(Get(output_path), OrDefault(format, Format)))

\* a file opened for appending keeps what it held
OpenWb_append(old) == IF old = None THEN <<>> ELSE Get(old)

\* aiofiles.open(output_path, 'wb'): the content of the file once opened,
\* whatever it held before (None: no file)
OpenWb(old) == <<>>

\* stream_speech_to_file up to the first chunk: the file is opened for
\* writing, then stream_speech builds the request
OpenFile ==
    /\ op = "stream_speech_to_file"
    /\ at = "start"
    /\ \E opened \in BOOLEAN :
         IF opened
         THEN /\ fs' = [fs EXCEPT ![ToFilePath] = Some(OpenWb(@))]
              /\ fsLog' = Append(fsLog, FileOp("open", ToFilePath, <<>>))
              /\ BuildRequest
         ELSE /\ at' = "done"
              /\ result' = Throw(ToFileFailedMsg(OSErrorStr), <<>>)
              /\ UNCHANGED <<fs, fsLog, request>>
    /\ UNCHANGED <<batchVars, callArgs, waited, failedCalls, apiCalls, callAttempt, received, audio_data,
                   audio_chunks, yielded, callbackLog>>

\* a Backend call failed with the error e: _call_openai_api sleeps and tries
\* again or gives up, the streaming calls give up at once
ApiFailure(e) ==
    /\ failedCalls' = failedCalls + 1
    /\ IF op = "generate_speech"
       THEN IF callAttempt < max_retries
            THEN /\ at' = "sleep"
                 /\ UNCHANGED result
            ELSE /\ at' = "done"
                 /\ result' = Throw(TTSAPIErrorStr(ApiFailedMsg(max_retries, e)), <<>>)
       ELSE /\ at' = "done"
            /\ result' =
                 IF op = "generate_speech_streaming"
                 THEN Return(FailedSpeech(UnexpectedMsg(
                          TTSAPIErrorStr(StreamingApiFailedMsg(e)))))
                 ELSE Throw(StreamError(TTSAPIErrorStr(StreamingApiFailedMsg(e))), <<>>)

\* the Backend receives the call and raises
BackendRaises ==
    /\ at = "call"
    /\ waited' = 0
    /\ apiCalls' = Append(apiCalls, ApiParams(Get(request)))
    /\ ApiFailure(BackendErrorStr(Len(apiCalls) + 1))
    /\ UNCHANGED <<batchVars, callArgs,  request, callAttempt, received, audio_data,
                   audio_chunks, yielded, callbackLog, fs, fsLog>>

\* the Backend receives the call and starts its response
BackendResponds ==
    /\ at = "call"
    /\ waited' = 0
    /\ apiCalls' = Append(apiCalls, ApiParams(Get(request)))
    /\ at' = "streaming"
    /\ received' = <<>>
    /\ audio_data' = <<>>
    /\ UNCHANGED <<batchVars, callArgs, failedCalls, request, callAttempt, audio_chunks, yielded,
                   callbackLog, fs, fsLog, result>>

Timeout == 5            \* TTSConfig.timeout in seconds, at its smallest (ge=5)

\* one more second passes and the Backend has not answered the pending call:
\* the call stays pending, no statement of the agent ends it
BackendSilent ==
    /\ at = "call"
    /\ waited <= Timeout
    /\ waited' = waited + 1
    /\ UNCHANGED <<batchVars, callArgs, request, apiCalls, callAttempt, failedCalls,
                   received, audio_data, audio_chunks, yielded, callbackLog, fs, fsLog,
                   at, result>>

\* every chunk is passed on, the empty ones too
KeepChunk_all(c) == TRUE

\* `if chunk:` of _stream_audio_chunks
KeepChunk(c) == c # <<>>

\* a failure of the callback leaves the loop
CallbackGuard_none(raised) == ~raised

\* try: callback(...) except Exception: warning -- the loop goes on whether
\* the callback raised or not
CallbackGuard(raised) == TRUE

\* the file holds the last chunk only
WriteChunk_overwrite(content, c) == c

\* f.write(chunk) on the open file
WriteChunk(content, c) == content \o c

BytesPerChar == 100

\* an estimate from the text of the validated request
EstimatedTotal_trimmed(t) == TextLen(Strip(t)) * BytesPerChar

\* `estimated_total = len(text) * 100`
EstimatedTotal(t) == TextLen(t) * BytesPerChar

\* the argument the callback is invoked with for the chunk c
CallbackArg(c) ==
    IF op = "stream_speech_with_progress"
    THEN <<Len(Join(audio_chunks)) + Len(c), EstimatedTotal(text)>>
    ELSE c

\* one chunk c passes through stream_speech and its consumer
Deliver(c, raises) ==
    /\ audio_chunks' = Append(audio_chunks, c)
    /\ callbackLog' = IF callback
                      THEN Append(callbackLog, [arg |-> CallbackArg(c), raised |-> raises])
                      ELSE callbackLog
    /\ IF CallbackGuard(raises)
       THEN /\ yielded' = Append(yielded, c)
            /\ UNCHANGED <<at, result>>
            /\ IF op = "stream_speech_to_file"
               THEN /\ fs' = [fs EXCEPT ![ToFilePath] = Some(WriteChunk(Get(@), c))]
                    /\ fsLog' = Append(fsLog, [FileOp("write", ToFilePath, c)
                                               EXCEPT !.after = Len(yielded) + 1])
               ELSE UNCHANGED <<fs, fsLog>>
       ELSE /\ at' = "done"
            /\ result' = Throw(IF op = "stream_speech_with_progress"
                               THEN ProgressFailedMsg(CallbackErrorStr)
                               ELSE StreamError(CallbackErrorStr), <<>>)
            /\ yielded' = IF op = "stream_speech_with_progress"
                          THEN Append(yielded, c) ELSE yielded
            /\ UNCHANGED <<fs, fsLog>>

\* the Backend delivers the chunk c
BackendChunk(c) ==
    /\ at = "streaming"
    /\ Len(received) < MaxChunks
    /\ received' = Append(received, c)
    /\ IF op \notin StreamOps
       THEN /\ audio_data' = audio_data \o c
            /\ UNCHANGED <<audio_chunks, yielded, callbackLog, fs, fsLog, at, result>>
       ELSE /\ UNCHANGED audio_data
            /\ IF KeepChunk(c)
               THEN \E raises \in IF callback THEN BOOLEAN ELSE {FALSE} :
                       Deliver(c, raises)
               ELSE UNCHANGED <<audio_chunks, yielded, callbackLog, fs, fsLog, at,
                                result>>
    /\ UNCHANGED <<batchVars, callArgs, waited, failedCalls, request, apiCalls, callAttempt>>

\* the response of the Backend breaks off
BackendStreamFails ==
    /\ at = "streaming"
    /\ ApiFailure(BackendErrorStr(Len(apiCalls)))
    /\ UNCHANGED <<batchVars, callArgs, waited,  request, apiCalls, callAttempt, received,
                   audio_data, audio_chunks, yielded, callbackLog, fs, fsLog>>

\* asyncio.sleep of _call_openai_api ends
SleepWake ==
    /\ at = "sleep"
    /\ at' = "call"
    /\ callAttempt' = callAttempt + 1
    /\ UNCHANGED <<batchVars, callArgs, waited, failedCalls, request, apiCalls, received, audio_data,
                   audio_chunks, yielded, callbackLog, fs, fsLog, result>>

\* the outcomes of writing a whole file: written, or failed in open() (file
\* untouched) or in write() (file left empty)
SaveOutcomes == {"ok", "open fails", "write fails"}

\* the file system after `data` was saved to `path` with the outcome `save`
Saved(path, data, save) ==
    CASE save = "ok" -> [fs EXCEPT ![path] = Some(data)]
      [] save = "write fails" -> [fs EXCEPT ![path] = Some(<<>>)]
      [] save = "open fails" -> fs

\* the entry of fsLog for a save that got as far as open()
SaveKind(save) == IF save = "ok" THEN "save" ELSE "failed save"

\* the path _save_audio_file and _save_streaming_audio write to
SavePath == PathStr(WithSuffix(Get(output_path), Get(request).format))

\* the response of the Backend ends: the operation finishes
BackendStreamEnds ==
    /\ at = "streaming"
    /\ at' = "done"
    /\ CASE op \in {"generate_speech", "generate_speech_streaming"} ->
              LET resp == SpeechResponse(audio_data, Get(request), TextLen(text),
                                         op = "generate_speech_streaming")
              IN IF output_path = None
                 THEN /\ result' = Return(resp)
                      /\ UNCHANGED <<fs, fsLog>>
                 ELSE \E save \in SaveOutcomes :
                        /\ fs' = Saved(SavePath, audio_data, save)
                        /\ fsLog' = IF save = "open fails" THEN fsLog
                                    ELSE Append(fsLog, FileOp(SaveKind(save), SavePath,
                                                              Get(fs'[SavePath])))
                        /\ result' =
                             IF save = "ok"
                             THEN Return([resp EXCEPT !.file_path = Some(SavePath)])
                             ELSE Return(FailedSpeech(UnexpectedMsg(TTSFileErrorStr(
                                      SaveFailedMsg(OSErrorStr), SavePath))))
         [] op = "stream_speech" ->
              IF output_path # None /\ audio_chunks # <<>>
              THEN \E save \in SaveOutcomes :
                     /\ fs' = Saved(SavePath, Join(audio_chunks), save)
                     /\ fsLog' = IF save = "open fails" THEN fsLog
                                 ELSE Append(fsLog, FileOp(SaveKind(save), SavePath,
                                                           Get(fs'[SavePath])))
                     /\ result' = IF save = "ok" THEN Return("exhausted")
                                  ELSE Throw(StreamError(
                                           SaveStreamingFailedMsg(OSErrorStr)), <<>>)
              ELSE /\ result' = Return("exhausted")
                   /\ UNCHANGED <<fs, fsLog>>
         [] op = "stream_speech_to_file" ->
              /\ result' = Return(ToFilePath)
              /\ UNCHANGED <<fs, fsLog>>
         [] op = "stream_speech_with_progress" ->
              /\ result' = Return(Join(audio_chunks))
              /\ UNCHANGED <<fs, fsLog>>
    /\ UNCHANGED <<batchVars, callArgs, waited, failedCalls, request, apiCalls, callAttempt, received,
                   audio_data, audio_chunks, yielded, callbackLog>>

NextCall ==
    \/ Construct
    \/ Begin
    \/ OpenFile
    \/ BackendRaises
    \/ BackendResponds
    \/ BackendSilent
    \/ \E c \in ChunkValues : BackendChunk(c)
    \/ BackendStreamFails
    \/ BackendStreamEnds
    \/ SleepWake

SpecCall == InitCall /\ [][NextCall]_vars

CallTypeOK ==
    /\ at \in {"start", "call", "sleep", "streaming", "done"}
    /\ result.kind \in {"pending", "returned", "raised"}
    /\ (at = "done") = (result.kind # "pending")

(* ----------------------- claims on single calls ------------------------- *)
Range(f) == {f[i] : i \in DOMAIN f}
AgentOps == Operations \ {"TTSRequest"}

\* every value the caller supplied is one the TTSRequest model accepts
CallerValuesValid ==
    /\ \E i \in DOMAIN text : text[i].ch \notin Whitespace
    /\ TextLen(text) <= MaxTextLength
    /\ voice # None => Get(voice) \in Voices
    /\ model # None => Get(model) \in TTSModels
    /\ format # None => Get(format) \in AudioFormats
    /\ speed # None => SpeedMin <= Get(speed) /\ Get(speed) <= SpeedMax

\* C12 (as stated): on every path of the agent a caller-supplied value that
\* is invalid never results in a Backend call: whenever the Backend has
\* received a call, the text, voice, model, format and speed the caller
\* supplied were all valid.
C12_Original ==
    op \in AgentOps /\ apiCalls # <<>> => CallerValuesValid

\* the part of C12 that holds: the Backend is called only with the fields of
\* a TTSRequest that passed validation
C12_CallsCarryValidRequest ==
    op \in AgentOps =>
        \A k \in DOMAIN apiCalls :
            /\ request # None
            /\ apiCalls[k] = ApiParams(Get(request))
            /\ apiCalls[k].voice \in Voices
            /\ apiCalls[k].model \in TTSModels
            /\ apiCalls[k].response_format \in AudioFormats
            /\ SpeedMin <= apiCalls[k].speed /\ apiCalls[k].speed <= SpeedMax
            /\ TextLen(apiCalls[k].input) \in MinTextLength..MaxTextLength

Constructed == op = "TTSRequest" /\ at = "done"
TextAccepted == "text" \notin Range(result.fields)
NonBlank(t) == \E i \in DOMAIN t : t[i].ch \notin Whitespace

\* C13 (as stated): the construction accepts a text exactly when it is
\* non-empty after trimming and its length after trimming is at most 4096.
C13_Original ==
    Constructed =>
        (TextAccepted <=> /\ Strip(text) # <<>>
                          /\ TextLen(Strip(text)) <= MaxTextLength)

\* C13 (amended): the construction of a TTSRequest accepts a text exactly when
\* it holds a non-blank character and its length as given, before trimming,
\* is at most 4096; the stored text is the given text without its leading and
\* trailing blanks; any other text is rejected with a validation error on
\* the field text.
C13_TextAccepted ==
    Constructed =>
        /\ TextAccepted <=> (NonBlank(text) /\ TextLen(text) <= MaxTextLength)
        /\ ~TextAccepted => result.kind = "raised"
        /\ result.kind = "returned" =>
              LET stored == Get(request).text
              IN /\ stored # <<>>
                 /\ Head(stored).ch \notin Whitespace
                 /\ stored[Len(stored)].ch \notin Whitespace
                 /\ \E l, t \in 0..MaxPad :
                       text = MkText(l, 0, 0) \o stored \o MkText(0, 0, t)

\* a padded text of exactly 4096 characters was accepted and stored shorter
C13_Witness ==
    /\ Constructed
    /\ result.kind = "returned"
    /\ TextLen(text) = MaxTextLength
    /\ TextLen(Get(request).text) < MaxTextLength

SpeedAccepted == "speed" \notin Range(result.fields)

\* C14: the construction of a TTSRequest accepts a given speed exactly when
\* 0.25 <= speed <= 4.0, both ends included, and stores it unchanged; 0.1, 5.0
\* and negative speeds are rejected.
C14_SpeedAccepted ==
    Constructed /\ speed # None =>
        /\ SpeedAccepted <=> (SpeedMin <= Get(speed) /\ Get(speed) <= SpeedMax)
        /\ Get(speed) \in {10, 500, -100} => result.kind = "raised"
        /\ result.kind = "returned" => Get(request).speed = Get(speed)

\* a request with the speed 0.25 was built
C14_Witness ==
    /\ Constructed
    /\ speed = Some(SpeedMin)
    /\ result.kind = "returned"
    /\ Get(request).speed = SpeedMin

NonEmpty(chunks) == SelectSeq(chunks, LAMBDA c : c # <<>>)
StreamReturned == op = "stream_speech" /\ result.kind = "returned"

\* C15 (as stated): stream_speech yields exactly the chunks of the Backend, in
\* order, and the file of a given output path holds their concatenation when
\* the stream has ended.
C15_Original ==
    StreamReturned =>
        /\ yielded = received
        /\ output_path # None => fs[SavePath] = Some(Join(received))

\* C15 (amended): stream_speech yields exactly the non-empty chunks of the
\* Backend, in order; nothing is written while chunks are still delivered;
\* when the stream has ended, an output path was given and at least one chunk
\* was yielded, the file holds the concatenation of the yielded chunks,
\* written in one operation after the last chunk; with no output path or no
\* chunk yielded no file is written.
C15_YieldsAndSaves ==
    op = "stream_speech" =>
        /\ yielded = NonEmpty(received)
        /\ at # "done" => fsLog = <<>>
        /\ result.kind = "returned" =>
              IF output_path # None /\ yielded # <<>>
              THEN /\ fs[SavePath] = Some(Join(yielded))
                   /\ fsLog = <<[kind |-> "save", path |-> SavePath,
                                 data |-> Join(received), after |-> Len(yielded)]>>
              ELSE fsLog = <<>>

\* two different chunks were yielded in the order of the Backend and saved
C15_Witness ==
    /\ StreamReturned
    /\ output_path # None
    /\ received = <<<<2, 3>>, <<1>>>>
    /\ yielded = received
    /\ fs[SavePath] = Some(<<2, 3, 1>>)

CallbackErrors ==
    {StreamFailedMsg(CallbackErrorStr), ProgressFailedMsg(CallbackErrorStr),
     ProgressFailedMsg(StreamFailedMsg(CallbackErrorStr))}

\* C16: a failure of the chunk callback of stream_speech or of the progress
\* callback of stream_speech_with_progress never ends the stream: every
\* non-empty chunk of the Backend is still delivered, the callback is invoked
\* for every one of them, those after a failure included, no error of the
\* operation stems from the callback, and stream_speech_with_progress returns
\* all the audio.
C16_CallbackFailureSwallowed ==
    op \in {"stream_speech", "stream_speech_with_progress"} /\ callback =>
        /\ yielded = NonEmpty(received)
        /\ Len(callbackLog) = Len(yielded)
        /\ \A k \in DOMAIN callbackLog :
              callbackLog[k].arg = IF op = "stream_speech" THEN yielded[k]
                                   ELSE <<Len(Join(SubSeq(yielded, 1, k))),
                                          EstimatedTotal(text)>>
        /\ result.exc \notin CallbackErrors
        /\ (op = "stream_speech_with_progress" /\ result.kind = "returned")
              => result.value = Some(Join(NonEmpty(received)))

\* the callback failed on the first chunk, was invoked again for the second
\* one, and the operation returned
C16_Witness ==
    /\ op \in {"stream_speech", "stream_speech_with_progress"}
    /\ Len(callbackLog) = 2
    /\ callbackLog[1].raised
    /\ Len(yielded) = 2
    /\ result.kind = "returned"

\* the Backend failed after stream_speech_to_file had opened its file and
\* built its request
ToFileBackendFailed ==
    /\ op = "stream_speech_to_file"
    /\ request # None
    /\ result.kind = "raised"

\* C17: when the Backend fails after delivering j chunks,
\* stream_speech_to_file raises (a TTSAgentError "Streaming to file failed")
\* and rolls nothing back: the file exists and holds exactly the
\* concatenation of those j chunks.
C17_NoRollback ==
    ToFileBackendFailed =>
        /\ fs[ToFilePath] = Some(Join(received))
        /\ failedCalls = 1
        /\ result.exc = ToFileFailedMsg(StreamFailedMsg(TTSAPIErrorStr(
                            StreamingApiFailedMsg(BackendErrorStr(1)))))

\* the Backend failed after two chunks, both are in the file
C17_Witness ==
    /\ ToFileBackendFailed
    /\ received = <<<<1>>, <<2, 3>>>>
    /\ fs[ToFilePath] = Some(<<1, 2, 3>>)

FieldOrder == <<"text", "voice", "model", "format", "speed">>

\* str() of the exceptions generate_speech and generate_speech_streaming can
\* catch
ValidationCauses ==
    {ValidationErrorStr(SelectSeq(FieldOrder, LAMBDA k : k \in S)) :
        S \in SUBSET Range(FieldOrder) \ {{}}}
ApiCauses ==
    {TTSAPIErrorStr(ApiFailedMsg(m, BackendErrorStr(m + 1))) : m \in 0..MaxApiRetries}
    \cup {TTSAPIErrorStr(StreamingApiFailedMsg(BackendErrorStr(1)))}
FileCauses == {TTSFileErrorStr(SaveFailedMsg(OSErrorStr), p) : p \in FsPaths}

\* the error texts that contain "Unexpected error"
Unexpected(causes) == {UnexpectedMsg(e) : e \in causes}

EveryCallFailed == apiCalls # <<>> /\ failedCalls = Len(apiCalls)
LastCallSucceeded == at = "done" /\ failedCalls < Len(apiCalls)
SaveSucceeded == fsLog # <<>> /\ fsLog[Len(fsLog)].kind = "save"

\* C18 (as stated): when every Backend call made for a request has failed,
\* generate_speech does not raise: it returns a response with success False
\* whose error contains "Unexpected error".
C18_Original ==
    op = "generate_speech" /\ at = "done" /\ EveryCallFailed =>
        /\ result.kind = "returned"
        /\ ~Get(result.value).success
        /\ Get(Get(result.value).error) \in Unexpected(ApiCauses)

\* C19: generate_speech_streaming never raises: a request that fails
\* validation, a Backend call that fails and a save that fails all give a
\* returned response with success False whose error contains "Unexpected
\* error"; a success gives success True with metadata["streaming"] True.
C19_StreamingNeverRaises ==
    op = "generate_speech_streaming" =>
        /\ result.kind # "raised"
        /\ at = "done" =>
              LET r == Get(result.value)
              IN /\ r.success <=> /\ request # None
                                  /\ failedCalls = 0
                                  /\ output_path # None => SaveSucceeded
                 /\ r.success => /\ "streaming" \in DOMAIN Get(r.metadata)
                                 /\ Get(r.metadata).streaming = TRUE
                 /\ ~r.success =>
                       Get(r.error) \in Unexpected(ValidationCauses \cup ApiCauses
                                                   \cup FileCauses)

\* the only Backend call of generate_speech_streaming failed and a failed
\* response was returned
C19_Witness ==
    /\ op = "generate_speech_streaming"
    /\ EveryCallFailed
    /\ result.kind = "returned"
    /\ Get(result.value).error =
          Some(UnexpectedMsg(TTSAPIErrorStr(StreamingApiFailedMsg(BackendErrorStr(1)))))

\* what a successful response of generate_speech carries besides file_size
CarriesAudioAndMetadata(r) ==
    /\ r.audio_data = Some(Join(received))
    /\ LET md == Get(r.metadata)
           sent == apiCalls[Len(apiCalls)]
       IN /\ md.voice = sent.voice /\ md.model = sent.model
          /\ md.format = sent.response_format /\ md.speed = sent.speed
    /\ output_path # None =>
          LET given == Get(output_path)
              path == IF given.suffix = ""
                      THEN given.stem \o "." \o Get(r.metadata).format
                      ELSE given.stem \o given.suffix
          IN /\ fs[path] = r.audio_data
             /\ r.file_path = Some(path)

MaxResults == 2         \* longest list `results` explored

\* the keyword arguments explored: every count from -1 to MaxResults + 1
\* against every list of at most MaxResults responses
CountInputs ==
    {[total_requests |-> t, successful |-> s, failed |-> f, results |-> rs,
      errors |-> <<>>] :
        t \in 0..(MaxResults + 1), s \in 0..(MaxResults + 1),
        f \in -1..(MaxResults + 1),
        rs \in UNION {[1..n -> {TTSResponse(TRUE, None, None, None),
                                FailedResponse("Test error")}] : n \in 0..MaxResults}}

InitCounts ==
    /\ NoBatch
    /\ max_retries = 0
    /\ op = "BatchTTSResponse"
    /\ kwargs \in CountInputs
    /\ text = <<>>
    /\ voice = None /\ model = None /\ format = None /\ speed = None
    /\ output_path = None
    /\ callback = FALSE
    /\ at = "start"
    /\ request = None
    /\ apiCalls = <<>>
    /\ callAttempt = 0
    /\ failedCalls = 0
    /\ waited = 0
    /\ received = <<>>
    /\ audio_data = <<>>
    /\ audio_chunks = <<>>
    /\ yielded = <<>>
    /\ callbackLog = <<>>
    /\ fs = <<>>
    /\ fsLog = <<>>
    /\ result = Pending

\* BatchTTSResponse(...) called directly
ConstructBatch ==
    /\ op = "BatchTTSResponse"
    /\ at = "start"
    /\ LET r == BatchTTSResponse(kwargs)
       IN result' = IF r.raised THEN Throw(r.exc, <<>>) ELSE Return(r.value)
    /\ at' = "done"
    /\ UNCHANGED <<batchVars, callArgs, waited, request, apiCalls, callAttempt, failedCalls,
                   received, audio_data, audio_chunks, yielded, callbackLog, fs, fsLog>>

NextCounts == ConstructBatch

SpecCounts == InitCounts /\ [][NextCounts]_vars

\* C21: the construction of a BatchTTSResponse is rejected whenever
\* successful + failed differs from total_requests or the length of results
\* differs from total_requests, and otherwise returns the object with the
\* kwargs given: no object with inconsistent counts comes out of it.
C21_InconsistentRejected ==
    op = "BatchTTSResponse" /\ at = "done" =>
        /\ (\/ kwargs.successful + kwargs.failed # kwargs.total_requests
            \/ Len(kwargs.results) # kwargs.total_requests)
              => result.kind = "raised" /\ result.value = None
        /\ result.kind = "returned" =>
              /\ result.value = Some(kwargs)
              /\ kwargs.successful + kwargs.failed = Len(kwargs.results)
              /\ Len(kwargs.results) = kwargs.total_requests

\* counts that add up were rejected because a result is missing
C21_Witness ==
    /\ op = "BatchTTSResponse"
    /\ at = "done"
    /\ kwargs.total_requests = 2
    /\ kwargs.successful = 1
    /\ kwargs.failed = 1
    /\ Len(kwargs.results) = 1
    /\ result.kind = "raised"

\* C22 (as stated): every Backend call is bounded by TTSConfig.timeout: a call
\* is never still pending once more seconds than the timeout have passed
\* without an answer (it has ended as a Backend failure by then).
C22_Original ==
    op \in AgentOps /\ at = "call" => waited <= Timeout

\* C23 (as stated): for every item the Backend is called at most
\* retry_attempts + 1 times, and never again after a call for the item
\* succeeded (the first call that succeeds is call number failK + 1).
C23_Original ==
    \A i \in Items : /\ calls[i] <= retry_attempts + 1
                     /\ calls[i] <= failK[i] + 1

\* C23 (amended): for every item the Backend is called at most
\* (retry_attempts + 1) * (max_retries + 1) times; a Backend call that
\* succeeded is followed by another call only when the save of its audio
\* failed, once per failed save; and the call behind a successful outcome is
\* the last call made for the item.
C23_CallsBounded ==
    \A i \in Items :
        /\ calls[i] <= TotalCalls(retry_attempts, max_retries)
        /\ calls[i] <= failK[i] + saveFails[i] + 1
        /\ (pc[i] = "done" /\ Succeeded(i)) => calls[i] = failK[i] + saveFails[i] + 1

\* an item ended after more than retry_attempts + 1 Backend calls
C23_Witness ==
    \E i \in Items :
        /\ pc[i] = "done"
        /\ Succeeded(i)
        /\ calls[i] > retry_attempts + 1
        /\ calls[i] = TotalCalls(retry_attempts, max_retries)

(* ------------- the retry loop of one item, up to MaxBackoffs ------------ *)
MaxBackoffs == 3        \* retry_attempts is drawn from 0..MaxBackoffs

\* process_batch of a single request with up to MaxBackoffs retries
InitRetry ==
    /\ max_concurrent = 1
    /\ retry_attempts \in 0..MaxBackoffs
    /\ max_retries \in 0..MaxApiRetries
    /\ requests = <<"a">>
    /\ failK \in [1..1 -> 0..TotalCalls(retry_attempts, max_retries)]
    /\ output_directory \in BOOLEAN
    /\ hashOf = [t \in Texts |-> 0]
    /\ phase = "init"
    /\ dirCreated = FALSE
    /\ pc = [i \in Items |-> "created"]
    /\ attempt = [i \in Items |-> 0]
    /\ apiAttempt = [i \in Items |-> 0]
    /\ calls = [i \in Items |-> 0]
    /\ taskResult = [i \in Items |-> NoResponse]
    /\ semValue = 0
    /\ semWaiters = <<>>
    /\ taskLogs = 0
    /\ files = [p \in Paths |-> None]
    /\ completionOrder = <<>>
    /\ saveFails = [i \in Items |-> 0]
    /\ batchOutcome = "pending"
    /\ batchResponse = EmptyBatch
    /\ sleeps = [i \in Items |-> <<>>]
    /\ concurrent_limit = None
    /\ NoCall

SpecRetry == InitRetry /\ [][Next]_vars

\* C24: the pauses of the retry loop of an item are 1, 2, 3, ... seconds, one
\* after each failed attempt that is not the last: none before the first
\* attempt, none after the attempt that succeeded or after the final failed
\* attempt (an item at attempt number a, counted from 0, has slept a times, and
\* once more while it pauses).
C24_LinearBackoff ==
    \A i \in Items :
        LET k == attempt[i] + (IF pc[i] = "backoff" THEN 1 ELSE 0)
        IN /\ sleeps[i] = [n \in 1..k |-> n]
           /\ Len(sleeps[i]) <= retry_attempts

\* an item ended after pauses of 1, 2 and 3 seconds
C24_Witness ==
    \E i \in Items : pc[i] = "done" /\ sleeps[i] = <<1, 2, 3>>

(* ------------------- process_batch under a fair event loop -------------- *)
\* the steps of item i, for any i up to MaxRequests
ItemStep(i) ==
    /\ i \in Items
    /\ \/ TaskStart(i)
       \/ ThrottlerAcquire(i)
       \/ ApiSleepWake(i)
       \/ BackoffWake(i)

\* the Backend call of item i returns or fails
CallEnds(i) == i \in Items /\ (BackendFail(i) \/ BackendSucceed(i))

\* the event loop runs every coroutine that is ready, every sleep ends, the
\* period of the throttler passes, and every Backend call returns or fails
Fairness ==
    /\ WF_vars(ProcessBatchStart)
    /\ WF_vars(GatherReturn)
    /\ WF_vars(ThrottlerFlush)
    /\ \A i \in 1..MaxRequests : WF_vars(ItemStep(i)) /\ WF_vars(CallEnds(i))

\* the calls of process_batch of Init, in an interpreter run whose hash sends
\* every text to the same file name (the file name plays no part in the
\* control flow)
InitFair == Init /\ hashOf = [t \in Texts |-> 0]

FairSpec == InitFair /\ [][Next]_vars /\ Fairness

\* the terminal outcome of item i: a success, or a failure after the last of
\* its retry_attempts + 1 attempts
TerminalOutcome(i) ==
    /\ pc[i] = "done"
    /\ Len(SelectSeq(completionOrder, LAMBDA j : j = i)) = 1
    /\ batchResponse.results[i] = taskResult[i]
    /\ Succeeded(i) \/ attempt[i] = retry_attempts

\* process_batch has returned; the items of a batch that was dispatched have
\* one terminal outcome each and the semaphore has all its slots back
ReturnedClean ==
    /\ phase = "finished"
    /\ batchOutcome = "returned"
    /\ Len(batchResponse.results) = N
    /\ (N >= 1 /\ N <= MaxBatchSize /\ (output_directory => dirCreated)) =>
          /\ \A i \in Items : TerminalOutcome(i)
          /\ Len(completionOrder) = N
          /\ semValue = InitialSemValue(max_concurrent)
          /\ semWaiters = <<>>

\* C25: when every Backend call returns or fails, every call of process_batch
\* eventually returns, and then every item has exactly one terminal outcome
\* and every slot of the semaphore has been released.
C25_BatchReturns == <>[]ReturnedClean

\* a batch of MaxRequests items has returned, one item having succeeded and
\* one having used up its retries
C25_Witness ==
    /\ ReturnedClean
    /\ N = MaxRequests
    /\ \A i \in Items : TerminalOutcome(i)
    /\ \E i, j \in Items : Succeeded(i) /\ ~Succeeded(j) /\ attempt[j] = retry_attempts

\* C26 (as stated): in a batch with an output directory two distinct items
\* never write the same file path: no two successful outcomes report the same
\* file_path.
C26_Original ==
    output_directory =>
        \A i, j \in Items :
            (i # j /\ pc[i] = "done" /\ pc[j] = "done" /\ Succeeded(i) /\ Succeeded(j))
                => taskResult[i].file_path # taskResult[j].file_path

\* the items that have passed `async with semaphore`
Admitted == {i \in Items : pc[i] \notin {"created", "gate"}}

InitConfig ==
    /\ max_concurrent \in 1..MaxConcurrent
    /\ concurrent_limit \in 1..MaxConcurrent
    /\ retry_attempts \in 0..MaxRetryAttempts
    /\ max_retries \in 0..MaxApiRetries
    /\ \E n \in 1..MaxRequests :
          /\ requests \in [1..n -> Texts]
          /\ failK \in [1..n -> 0..TotalCalls(retry_attempts, max_retries)]
    /\ output_directory \in BOOLEAN
    /\ hashOf = [t \in Texts |-> 0]
    /\ phase = "init"
    /\ dirCreated = FALSE
    /\ pc = [i \in Items |-> "created"]
    /\ attempt = [i \in Items |-> 0]
    /\ apiAttempt = [i \in Items |-> 0]
    /\ calls = [i \in Items |-> 0]
    /\ taskResult = [i \in Items |-> NoResponse]
    /\ semValue = 0
    /\ semWaiters = <<>>
    /\ taskLogs = 0
    /\ files = [p \in Paths |-> None]
    /\ completionOrder = <<>>
    /\ saveFails = [i \in Items |-> 0]
    /\ batchOutcome = "pending"
    /\ batchResponse = EmptyBatch
    /\ sleeps = [i \in Items |-> <<>>]
    /\ NoCall

SpecConfig == InitConfig /\ [][Next]_vars

\* C28 (as stated): under process_batch_from_config at most
\* batch_request.concurrent_limit items are in flight at any time.
C28_Original == Cardinality(InFlight) <= concurrent_limit

\* the bytes_received of the k-th invocation of the progress callback
BytesReported(k) == callbackLog[k].arg[1]

\* C29: stream_speech_with_progress invokes the progress callback once per
\* chunk it received, in the order of the chunks, with the cumulative number
\* of bytes received so far (never decreasing, at the end the length of the
\* returned audio) and with the estimate len(text) * 100 of the text as the
\* caller gave it; the bytes returned are the chunks concatenated in order.
C29_ProgressReports ==
    op = "stream_speech_with_progress" =>
        /\ audio_chunks = yielded
        /\ Len(callbackLog) = (IF callback THEN Len(audio_chunks) ELSE 0)
        /\ \A k \in DOMAIN callbackLog :
              /\ BytesReported(k) = (IF k = 1 THEN 0 ELSE BytesReported(k - 1))
                                    + Len(audio_chunks[k])
              /\ callbackLog[k].arg[2] = TextLen(text) * BytesPerChar
        /\ result.kind = "returned" =>
              /\ result.value = Some(Join(audio_chunks))
              /\ callbackLog # <<>> =>
                    BytesReported(Len(callbackLog)) = Len(Get(result.value))

\* stream_speech_with_progress returned three bytes it received in two
\* chunks, for a text with surrounding whitespace, after two progress reports
C29_Witness ==
    /\ op = "stream_speech_with_progress"
    /\ callback
    /\ text # Strip(text)
    /\ result.kind = "returned"
    /\ result.value = Some(<<2, 3, 1>>)
    /\ Len(callbackLog) = 2
    /\ BytesReported(1) = 2 /\ BytesReported(2) = 3

\* stream_speech_to_file has opened its file
FileOpened ==
    /\ fsLog # <<>>
    /\ fsLog[1].kind = "open"
    /\ fsLog[1].path = ToFilePath

\* what stream_speech_to_file raises when stream_speech fails in its
\* validation or in its Backend call
BeforeFirstChunkErrors ==
    {ToFileFailedMsg(StreamFailedMsg(e)) :
        e \in ValidationCauses
              \cup {TTSAPIErrorStr(StreamingApiFailedMsg(BackendErrorStr(1)))}}

\* C30: stream_speech_to_file opens (creates or truncates) its output file
\* before the request is validated and before any Backend call; when the call
\* then fails before a first chunk was written (invalid text or speed, Backend
\* failing), it raises a TTSAgentError "Streaming to file failed" and the path
\* holds an empty file, whatever it held before.
C30_TruncatedBeforeValidation ==
    op = "stream_speech_to_file" =>
        /\ (request # None \/ apiCalls # <<>>) => FileOpened
        /\ (result.kind = "raised" /\ result.exc # ToFileFailedMsg(OSErrorStr))
              => FileOpened
        /\ (result.kind = "raised" /\ FileOpened /\ yielded = <<>>) =>
              /\ fs[ToFilePath] = Some(<<>>)
              /\ result.exc \in BeforeFirstChunkErrors

\* stream_speech_to_file raised for an invalid request and left its path
\* empty, while the other paths still hold what every path held before
C30_Witness ==
    /\ op = "stream_speech_to_file"
    /\ result.kind = "raised"
    /\ request = None
    /\ apiCalls = <<>>
    /\ fs[ToFilePath] = Some(<<>>)
    /\ \A q \in FsPaths \ {ToFilePath} : fs[q] = Some(OldContent)
====
